---- MODULE Spec2Model ----
(***************************************************************************)
(* Model of the authentication-and-order REST backend                      *)
(* (src/unnamed/part_000, with src/server.js holding the same /register    *)
(* and /login handlers).                                                   *)
(*                                                                         *)
(* State: the User and Order collections, the server clock, the tokens     *)
(* that clients hold, and one record per client connection giving the      *)
(* request it has in flight (or the last answer it received).  Every       *)
(* handler is split at its awaits on the store: the synchronous prefix     *)
(* (the gate, the presence checks) runs in the Arrive action, each store   *)
(* operation is one atomic step, and requests of different clients         *)
(* interleave between those steps.  bcrypt.hash / bcrypt.compare touch no  *)
(* shared state and are folded into the store step that follows them.      *)
(*                                                                         *)
(* Library behaviour the code relies on:                                   *)
(*  - mongoose builds the unique index declared on User.username; an       *)
(*    insert or update that would duplicate a username throws E11000;      *)
(*  - jsonwebtoken stamps iat = floor(Date.now()/1000), exp = iat + 7200   *)
(*    for expiresIn "2h", and verify fails once clockTimestamp >= exp;     *)
(*  - bcrypt.hash draws a fresh salt; compare succeeds exactly on the      *)
(*    hashed plaintext;                                                    *)
(*  - a sort on equal keys returns the ties in an unspecified order.       *)
(***************************************************************************)
EXTENDS Integers, Sequences, FiniteSets, TLC

VARIABLES users, orders, issued, now, slot

vars == <<users, orders, issued, now, slot>>

---------------------------------------------------------------------------
(* Bounds of the model *)

MaxUsers == 2
MaxOrders == 2
MaxTokens == 2

(* Program constants *)

ExpiresIn == 7200
SaltRounds == 10

Clients == {"c1", "c2"}
Usernames == {"u1", "u2"}
Passwords == {"p1", "p2"}
Salts == {"s1"}

\* A body field that is missing (undefined) or empty: falsy in "!field".
Absent == ""

\* process.env.JWT_SECRET, and a key an outsider signs with.
Secret == "JWT_SECRET"
OtherKey == "other"

\* Clock readings, in whole seconds (floor(Date.now() / 1000)), sampled
\* around the expiry boundary of tokens issued at 0 and at 1.
Times == {0, 1, ExpiresIn, ExpiresIn + 1}

ItemA == [name |-> "A", price |-> 10, quantity |-> 2]
ItemB == [name |-> "B", price |-> 5, quantity |-> 1]

\* The non-empty item lists clients order.
ItemLists == {<<ItemA, ItemB>>, <<ItemB>>}

Protected == {"update-username", "update-password", "create-order", "my-orders"}

---------------------------------------------------------------------------
(* Responses *)

Resp(status, message) ==
    [status |-> status, message |-> message, token |-> <<>>, orders |-> <<>>]

NoResp == Resp(0, "")

---------------------------------------------------------------------------
(* bcrypt *)

BcryptHash(password, salt) ==
    [cost |-> SaltRounds, salt |-> salt, digest |-> <<salt, password>>]

BcryptCompare(password, hash) ==
    hash.digest = <<hash.salt, password>>

---------------------------------------------------------------------------
(* jsonwebtoken *)

NoPayload == [id |-> 0, username |-> Absent, iat |-> 0, exp |-> 0]

\* A header word that is no JWT: the scheme "Bearer", or garbage.
TextWord ==
    [kind |-> "text", key |-> "", id |-> 0, username |-> Absent,
     iat |-> 0, exp |-> 0]

\* Mutant: the expiry is stamped without the lifetime.
JwtSignNoLifetime(claims, key, t) ==
    [kind |-> "jwt", key |-> key, id |-> claims.id,
     username |-> claims.username, iat |-> t, exp |-> t]

JwtSign(claims, key, t) ==
    [kind |-> "jwt", key |-> key, id |-> claims.id,
     username |-> claims.username, iat |-> t, exp |-> t + ExpiresIn]

\* Mutant: the token is still taken at the second of its expiry.
JwtVerifyLate(token, key, t) ==
    IF token = <<>>
    THEN [err |-> "jwt must be provided", decoded |-> NoPayload]
    ELSE IF token[1].kind # "jwt"
    THEN [err |-> "jwt malformed", decoded |-> NoPayload]
    ELSE IF token[1].key # key
    THEN [err |-> "invalid signature", decoded |-> NoPayload]
    ELSE IF t > token[1].exp
    THEN [err |-> "jwt expired", decoded |-> NoPayload]
    ELSE [err |-> "",
          decoded |-> [id |-> token[1].id, username |-> token[1].username,
                       iat |-> token[1].iat, exp |-> token[1].exp]]

\* token is <<>> (undefined) or <<word>>.
JwtVerify(token, key, t) ==
    IF token = <<>>
    THEN [err |-> "jwt must be provided", decoded |-> NoPayload]
    ELSE IF token[1].kind # "jwt"
    THEN [err |-> "jwt malformed", decoded |-> NoPayload]
    ELSE IF token[1].key # key
    THEN [err |-> "invalid signature", decoded |-> NoPayload]
    ELSE IF t >= token[1].exp
    THEN [err |-> "jwt expired", decoded |-> NoPayload]
    ELSE [err |-> "",
          decoded |-> [id |-> token[1].id, username |-> token[1].username,
                       iat |-> token[1].iat, exp |-> token[1].exp]]

\* The same payload signed with another key.
Forge(tok) == [tok EXCEPT !.key = OtherKey]

---------------------------------------------------------------------------
(* The gate.  authHeader is the header split at spaces; <<>> is no header. *)

\* Mutant: the missing header is not checked before the token is verified.
VerifyTokenNoHeaderCheck(authHeader, t) ==
    LET token == IF Len(authHeader) >= 2 THEN <<authHeader[2]>> ELSE <<>>
        v == JwtVerify(token, Secret, t)
    IN  IF v.err # ""
        THEN [next |-> FALSE, res |-> Resp(403, "Invalid token"),
              user |-> NoPayload]
        ELSE [next |-> TRUE, res |-> NoResp, user |-> v.decoded]

VerifyToken(authHeader, t) ==
    IF authHeader = <<>>
    THEN [next |-> FALSE, res |-> Resp(401, "Access denied. No token."),
          user |-> NoPayload]
    ELSE LET token == IF Len(authHeader) >= 2 THEN <<authHeader[2]>> ELSE <<>>
             v == JwtVerify(token, Secret, t)
         IN  IF v.err # ""
             THEN [next |-> FALSE, res |-> Resp(403, "Invalid token"),
                   user |-> NoPayload]
             ELSE [next |-> TRUE, res |-> NoResp, user |-> v.decoded]

\* The Authorization headers a client can send, by kind: none, a scheme
\* alone, a scheme and garbage, a scheme and a token it was issued, a scheme
\* and a forgery of one.
HeaderKinds == {"none", "scheme", "garbage", "bearer", "forged"}

Headers(kinds) ==
    (IF "none" \in kinds THEN {<<>>} ELSE {})
        \cup (IF "scheme" \in kinds THEN {<<TextWord>>} ELSE {})
        \cup (IF "garbage" \in kinds THEN {<<TextWord, TextWord>>} ELSE {})
        \cup (IF "bearer" \in kinds THEN {<<TextWord, t>> : t \in issued} ELSE {})
        \cup (IF "forged" \in kinds THEN {<<TextWord, Forge(t)>> : t \in issued} ELSE {})

---------------------------------------------------------------------------
(* The store *)

\* Mutant: the schema declares no unique index.
NoUniqueIndex(username, id) == TRUE

\* The unique index on User.username: may the document with _id id (0 for a
\* new document) carry username?
UniqueIndexOk(username, id) ==
    \A u \in users : u.username = username => u.id = id

\* User.findOne({ username }): the documents it may return.
FindOneUser(username) == {u \in users : u.username = username}

\* Mutant: the find is not sorted.
UnsortedOrders(userId) ==
    LET mine == {o \in orders : o.userId = userId}
        n == Cardinality(mine)
    IN  {s \in [1..n -> mine] : \A i, j \in 1..n : i # j => s[i] # s[j]}

\* Order.find({ userId }).sort({ createdAt: -1 }): the lists it may return.
SortedOrders(userId) ==
    LET mine == {o \in orders : o.userId = userId}
        n == Cardinality(mine)
    IN  {s \in [1..n -> mine] :
            /\ \A i, j \in 1..n : i # j => s[i] # s[j]
            /\ \A i, j \in 1..n : i < j => s[i].createdAt >= s[j].createdAt}

\* Mutant: "total =" for "total +=".
ForEachTotalOverwrite(items, total) ==
    IF items = <<>> THEN total
    ELSE items[Len(items)].price * items[Len(items)].quantity

\* items.forEach(item => total += item.price * item.quantity), from total = 0
RECURSIVE ForEachTotal(_, _)
ForEachTotal(items, total) ==
    IF items = <<>> THEN total
    ELSE ForEachTotal(Tail(items),
                      total + Head(items).price * Head(items).quantity)

---------------------------------------------------------------------------
(* Connections.  A connection record holds the request (its fields and   *)
(* Authorization header), the handler's position and locals, and, once    *)
(* answered, the response.                                                 *)

IdleSlot ==
    [op |-> "none", pc |-> "idle", username |-> Absent, password |-> Absent,
     hasItems |-> FALSE, items |-> <<>>, header |-> <<>>,
     user |-> NoPayload, ran |-> FALSE,
     found |-> <<>>, doc |-> <<>>, expect |-> {}, resp |-> NoResp]

Free(c) == slot[c].pc \in {"idle", "done"}

\* res.status(..).json(..): the handler is over, its locals are gone.
Answer(s, res) ==
    [s EXCEPT !.pc = "done", !.resp = res, !.found = <<>>, !.doc = <<>>]

Init ==
    /\ users = {}
    /\ orders = {}
    /\ issued = {}
    /\ now = 0
    /\ slot = [c \in Clients |-> IdleSlot]

---------------------------------------------------------------------------
(* POST /register *)

RegisterArrive(c, names, pws) ==
    /\ Free(c)
    /\ \E username \in names, password \in pws :
         LET s == [IdleSlot EXCEPT !.op = "register", !.username = username,
                                   !.password = password, !.ran = TRUE]
         IN  slot' = [slot EXCEPT ![c] =
                 IF username = Absent \/ password = Absent
                 THEN Answer(s, Resp(400, "Username and password required"))
                 ELSE [s EXCEPT !.pc = "findOne"]]
    /\ UNCHANGED <<users, orders, issued, now>>

RegisterFindOne(c) ==
    /\ slot[c].op = "register"
    /\ slot[c].pc = "findOne"
    /\ slot' = [slot EXCEPT ![c] =
           IF FindOneUser(slot[c].username) # {}
           THEN Answer(slot[c], Resp(409, "User already exists"))
           ELSE [slot[c] EXCEPT !.pc = "save"]]
    /\ UNCHANGED <<users, orders, issued, now>>

RegisterSave(c) ==
    /\ slot[c].op = "register"
    /\ slot[c].pc = "save"
    /\ IF UniqueIndexOk(slot[c].username, 0)
       THEN /\ Cardinality(users) < MaxUsers
            /\ \E salt \in Salts :
                 users' = users \cup
                     {[id |-> Cardinality(users) + 1,
                       username |-> slot[c].username,
                       password |-> BcryptHash(slot[c].password, salt)]}
            /\ slot' = [slot EXCEPT ![c] =
                   Answer(slot[c], Resp(200, "User registered successfully"))]
       ELSE /\ users' = users
            /\ slot' = [slot EXCEPT ![c] =
                   Answer(slot[c], Resp(500, "Server error"))]
    /\ UNCHANGED <<orders, issued, now>>

---------------------------------------------------------------------------
(* POST /login *)

LoginArrive(c, names, pws) ==
    /\ Free(c)
    /\ \E username \in names, password \in pws :
         LET s == [IdleSlot EXCEPT !.op = "login", !.username = username,
                                   !.password = password, !.ran = TRUE]
         IN  slot' = [slot EXCEPT ![c] =
                 IF username = Absent \/ password = Absent
                 THEN Answer(s, Resp(400, "Username and password required"))
                 ELSE [s EXCEPT !.pc = "findOne"]]
    /\ UNCHANGED <<users, orders, issued, now>>

\* Mutant: an unknown username gets an answer of its own.
LoginFindOneNotFound(c) ==
    /\ slot[c].op = "login"
    /\ slot[c].pc = "findOne"
    /\ IF FindOneUser(slot[c].username) = {}
       THEN slot' = [slot EXCEPT ![c] =
                Answer(slot[c], Resp(404, "User not found"))]
       ELSE \E user \in FindOneUser(slot[c].username) :
                slot' = [slot EXCEPT ![c] =
                    [slot[c] EXCEPT !.pc = "compare", !.found = <<user>>]]
    /\ UNCHANGED <<users, orders, issued, now>>

\* expect is a history field: the ids of the users that, when the lookup
\* runs, are stored under the request's username with a hash of its password.
LoginFindOne(c) ==
    /\ slot[c].op = "login"
    /\ slot[c].pc = "findOne"
    /\ LET expect == {u.id : u \in {x \in users :
                          /\ x.username = slot[c].username
                          /\ BcryptCompare(slot[c].password, x.password)}}
       IN  IF FindOneUser(slot[c].username) = {}
           THEN slot' = [slot EXCEPT ![c] =
                    Answer([slot[c] EXCEPT !.expect = expect],
                           Resp(401, "Invalid username or password"))]
           ELSE \E user \in FindOneUser(slot[c].username) :
                    slot' = [slot EXCEPT ![c] =
                        [slot[c] EXCEPT !.pc = "compare", !.found = <<user>>,
                                        !.expect = expect]]
    /\ UNCHANGED <<users, orders, issued, now>>

\* issued: the client keeps the token it is sent.
LoginRespond(c) ==
    /\ slot[c].op = "login"
    /\ slot[c].pc = "compare"
    /\ LET user == slot[c].found[1]
           token == JwtSign([id |-> user.id, username |-> user.username],
                            Secret, now)
       IN  IF ~BcryptCompare(slot[c].password, user.password)
           THEN /\ slot' = [slot EXCEPT ![c] =
                       Answer(slot[c], Resp(401, "Invalid username or password"))]
                /\ issued' = issued
           ELSE /\ Cardinality(issued \cup {token}) <= MaxTokens
                /\ slot' = [slot EXCEPT ![c] =
                       Answer(slot[c], [Resp(200, "Login successful")
                                           EXCEPT !.token = <<token>>])]
                /\ issued' = issued \cup {token}
    /\ UNCHANGED <<users, orders, now>>

---------------------------------------------------------------------------
(* Protected routes: verifyToken runs first, then the handler's checks.    *)

\* The connection after the gate: answered by the gate, or with req.user set
\* and the handler entered.
Gate(op, header, t) ==
    LET g == VerifyToken(header, t)
        s == [IdleSlot EXCEPT !.op = op, !.header = header]
    IN  IF g.next
        THEN [s EXCEPT !.user = g.user, !.ran = TRUE, !.pc = "handler"]
        ELSE Answer(s, g.res)

(* POST /update-username *)

UpdateUsernameArrive(c, kinds, names) ==
    /\ Free(c)
    /\ \E header \in Headers(kinds), username \in names :
         LET g == [Gate("update-username", header, now)
                      EXCEPT !.username = username]
         IN  slot' = [slot EXCEPT ![c] =
                 IF g.pc = "done" THEN g
                 ELSE IF username = Absent
                 THEN Answer(g, Resp(400, "Username required"))
                 ELSE [g EXCEPT !.pc = "update"]]
    /\ UNCHANGED <<users, orders, issued, now>>

\* Mutant: the update replaces the document, and the hash is lost.
UpdateUsernameOverwrite(c) ==
    /\ slot[c].op = "update-username"
    /\ slot[c].pc = "update"
    /\ IF UniqueIndexOk(slot[c].username, slot[c].user.id)
       THEN /\ users' = {IF u.id = slot[c].user.id
                         THEN [u EXCEPT !.username = slot[c].username,
                                        !.password = BcryptHash(Absent, "s1")]
                         ELSE u : u \in users}
            /\ slot' = [slot EXCEPT ![c] =
                   Answer(slot[c], Resp(200, "Username updated successfully"))]
       ELSE /\ users' = users
            /\ slot' = [slot EXCEPT ![c] =
                   Answer(slot[c], Resp(500, "Server error"))]
    /\ UNCHANGED <<orders, issued, now>>

\* User.findByIdAndUpdate(req.user.id, { username })
UpdateUsernameWrite(c) ==
    /\ slot[c].op = "update-username"
    /\ slot[c].pc = "update"
    /\ IF UniqueIndexOk(slot[c].username, slot[c].user.id)
       THEN /\ users' = {IF u.id = slot[c].user.id
                         THEN [u EXCEPT !.username = slot[c].username]
                         ELSE u : u \in users}
            /\ slot' = [slot EXCEPT ![c] =
                   Answer(slot[c], Resp(200, "Username updated successfully"))]
       ELSE /\ users' = users
            /\ slot' = [slot EXCEPT ![c] =
                   Answer(slot[c], Resp(500, "Server error"))]
    /\ UNCHANGED <<orders, issued, now>>

(* POST /update-password *)

UpdatePasswordArrive(c, kinds, pws) ==
    /\ Free(c)
    /\ \E header \in Headers(kinds), password \in pws :
         LET g == [Gate("update-password", header, now)
                      EXCEPT !.password = password]
         IN  slot' = [slot EXCEPT ![c] =
                 IF g.pc = "done" THEN g
                 ELSE IF password = Absent
                 THEN Answer(g, Resp(400, "Password required"))
                 ELSE [g EXCEPT !.pc = "update"]]
    /\ UNCHANGED <<users, orders, issued, now>>

\* bcrypt.hash, then User.findByIdAndUpdate(req.user.id, { password })
UpdatePasswordWrite(c) ==
    /\ slot[c].op = "update-password"
    /\ slot[c].pc = "update"
    /\ \E salt \in Salts :
         users' = {IF u.id = slot[c].user.id
                   THEN [u EXCEPT !.password = BcryptHash(slot[c].password, salt)]
                   ELSE u : u \in users}
    /\ slot' = [slot EXCEPT ![c] =
           Answer(slot[c], Resp(200, "Password updated successfully"))]
    /\ UNCHANGED <<orders, issued, now>>

(* POST /create-order *)

\* Mutant: the order is saved before its items are checked.
CreateOrderSavesFirst(c, kinds, lists) ==
    /\ Free(c)
    /\ \E header \in Headers(kinds), hasItems \in BOOLEAN, list \in lists :
         /\ ~hasItems => list = <<>>
         /\ LET g == [Gate("create-order", header, now)
                         EXCEPT !.hasItems = hasItems, !.items = list]
                newOrder == [id |-> Cardinality(orders) + 1,
                             userId |-> g.user.id, items |-> list,
                             totalAmount |-> ForEachTotal(list, 0),
                             status |-> "Pending", createdAt |-> now]
            IN  IF g.pc = "done"
                THEN slot' = [slot EXCEPT ![c] = g] /\ orders' = orders
                ELSE /\ Cardinality(orders) < MaxOrders
                     /\ orders' = orders \cup {newOrder}
                     /\ slot' = [slot EXCEPT ![c] =
                            IF ~hasItems \/ Len(list) = 0
                            THEN Answer(g, Resp(400, "No items provided"))
                            ELSE Answer(g, Resp(200, "Order placed successfully"))]
    /\ UNCHANGED <<users, issued, now>>

\* new Order({...}) fills status and createdAt (Date.now) when it is built,
\* before the save is awaited.
CreateOrderArrive(c, kinds, lists) ==
    /\ Free(c)
    /\ \E header \in Headers(kinds), hasItems \in BOOLEAN, list \in lists :
         /\ ~hasItems => list = <<>>
         /\ LET g == [Gate("create-order", header, now)
                         EXCEPT !.hasItems = hasItems, !.items = list]
                newOrder == [id |-> 0, userId |-> g.user.id, items |-> list,
                             totalAmount |-> ForEachTotal(list, 0),
                             status |-> "Pending", createdAt |-> now]
            IN  slot' = [slot EXCEPT ![c] =
                    IF g.pc = "done" THEN g
                    ELSE IF ~hasItems \/ Len(list) = 0
                    THEN Answer(g, Resp(400, "No items provided"))
                    ELSE [g EXCEPT !.pc = "save", !.doc = <<newOrder>>]]
    /\ UNCHANGED <<users, orders, issued, now>>

\* newOrder.save(): the store gives the document its _id.
CreateOrderSave(c) ==
    /\ slot[c].op = "create-order"
    /\ slot[c].pc = "save"
    /\ Cardinality(orders) < MaxOrders
    /\ orders' = orders \cup
           {[slot[c].doc[1] EXCEPT !.id = Cardinality(orders) + 1]}
    /\ slot' = [slot EXCEPT ![c] =
           Answer(slot[c], Resp(200, "Order placed successfully"))]
    /\ UNCHANGED <<users, issued, now>>

(* GET /my-orders *)

MyOrdersArrive(c, kinds) ==
    /\ Free(c)
    /\ \E header \in Headers(kinds) :
         LET g == Gate("my-orders", header, now)
         IN  slot' = [slot EXCEPT ![c] =
                 IF g.pc = "done" THEN g ELSE [g EXCEPT !.pc = "find"]]
    /\ UNCHANGED <<users, orders, issued, now>>

MyOrdersFind(c) ==
    /\ slot[c].op = "my-orders"
    /\ slot[c].pc = "find"
    /\ \E list \in SortedOrders(slot[c].user.id) :
         slot' = [slot EXCEPT ![c] =
             Answer(slot[c], [Resp(200, Absent) EXCEPT !.orders = list])]
    /\ UNCHANGED <<users, orders, issued, now>>

---------------------------------------------------------------------------
(* The clock *)

Tick(times) ==
    /\ \E t \in times : t > now /\ now' = t
    /\ UNCHANGED <<users, orders, issued, slot>>

---------------------------------------------------------------------------
(* Specifications *)

\* Accounts: two clients, every account request, every username and password.
NextAccounts ==
    \E c \in Clients :
        \/ RegisterArrive(c, Usernames, Passwords)
        \/ RegisterFindOne(c)
        \/ RegisterSave(c)
        \/ LoginArrive(c, Usernames, Passwords)
        \/ LoginFindOne(c)
        \/ LoginRespond(c)
        \/ UpdateUsernameArrive(c, {"bearer"}, Usernames)
        \/ UpdateUsernameWrite(c)
        \/ UpdatePasswordArrive(c, {"bearer"}, Passwords)
        \/ UpdatePasswordWrite(c)

SpecAccounts == Init /\ [][NextAccounts]_vars

\* Two clients each send one register request to the empty store.
NextRegisterPair ==
    \E c \in Clients :
        \/ slot[c].pc = "idle" /\ RegisterArrive(c, Usernames, Passwords)
        \/ RegisterFindOne(c)
        \/ RegisterSave(c)

SpecRegisterPair == Init /\ [][NextRegisterPair]_vars

\* The gate: one connection (verifyToken is synchronous), every kind of
\* Authorization header on every protected route, and the clock.
NextGate ==
    \/ \E c \in {"c1"} :
        \/ RegisterArrive(c, {"u1"}, {"p1"})
        \/ RegisterFindOne(c)
        \/ RegisterSave(c)
        \/ LoginArrive(c, {"u1"}, {"p1"})
        \/ LoginFindOne(c)
        \/ LoginRespond(c)
        \/ UpdateUsernameArrive(c, HeaderKinds, {"u2", Absent})
        \/ UpdateUsernameWrite(c)
        \/ UpdatePasswordArrive(c, HeaderKinds, {"p2", Absent})
        \/ UpdatePasswordWrite(c)
        \/ CreateOrderArrive(c, HeaderKinds, {<<>>})
        \/ MyOrdersArrive(c, HeaderKinds)
        \/ MyOrdersFind(c)
    \/ Tick(Times)

SpecGate == Init /\ [][NextGate]_vars

\* Orders of two users: one client sends every request, a second one
\* create-order requests that interleave with them.
NextOrders ==
    \/ \E c \in {"c1"} :
        \/ RegisterArrive(c, Usernames, {"p1"})
        \/ RegisterFindOne(c)
        \/ RegisterSave(c)
        \/ LoginArrive(c, Usernames, {"p1"})
        \/ LoginFindOne(c)
        \/ LoginRespond(c)
        \/ CreateOrderArrive(c, {"bearer"}, ItemLists \cup {<<>>})
        \/ MyOrdersArrive(c, {"bearer"})
        \/ MyOrdersFind(c)
    \/ \E c \in {"c2"} :
        CreateOrderArrive(c, {"bearer"}, {<<ItemB>>})
    \/ \E c \in Clients :
        CreateOrderSave(c)
    \/ Tick({1})

SpecOrders == Init /\ [][NextOrders]_vars

\* The whole API with its missing-field requests on one client, while a
\* second client registers, renames and orders; the clock stands still.
Next ==
    \/ \E c \in {"c1"} :
        \/ RegisterArrive(c, {"u1", Absent}, {"p1", Absent})
        \/ LoginArrive(c, {"u1", Absent}, {"p1", Absent})
        \/ LoginFindOne(c)
        \/ LoginRespond(c)
        \/ UpdateUsernameArrive(c, {"none", "bearer"}, {"u2", Absent})
        \/ UpdatePasswordArrive(c, {"none", "bearer"}, {"p2", Absent})
        \/ UpdatePasswordWrite(c)
        \/ CreateOrderArrive(c, {"none", "bearer"}, {<<>>, <<ItemB>>})
        \/ MyOrdersArrive(c, {"none", "bearer"})
        \/ MyOrdersFind(c)
    \/ \E c \in {"c2"} :
        \/ RegisterArrive(c, {"u1"}, {"p1"})
        \/ UpdateUsernameArrive(c, {"bearer"}, {"u2"})
        \/ CreateOrderArrive(c, {"bearer"}, {<<ItemB>>})
    \/ \E c \in Clients :
        \/ RegisterFindOne(c)
        \/ RegisterSave(c)
        \/ UpdateUsernameWrite(c)
        \/ CreateOrderSave(c)

Spec == Init /\ [][Next]_vars

---------------------------------------------------------------------------
(* Properties *)

Range(s) == {s[i] : i \in 1..Len(s)}

\* Client c sends a request to a protected route in this step.
ArrivesProtected(c) ==
    /\ Free(c)
    /\ slot'[c] # slot[c]
    /\ slot'[c].op \in Protected

\* Client c's request is answered in this step.
Answered(c) == slot'[c] # slot[c] /\ slot'[c].pc = "done"

\* C1: no two stored users have the same username, whatever register and
\* update-username requests ran, in whatever interleaving.
UsernameUnique ==
    \A a, b \in users : a.username = b.username => a = b

\* Two users are stored and a register lost the race for a username.
UsernameUniqueWitness ==
    /\ Cardinality(users) = 2
    /\ \E c \in Clients :
         /\ slot[c].op = "register"
         /\ slot[c].resp.status = 500

\* C2: of two register requests for the same username, run one after the
\* other or interleaved between findOne and save, one answers 200 and creates
\* the user and the other answers 409 "User already exists".
RegisterTwiceConflict ==
    \A a, b \in Clients :
        ( /\ a # b
          /\ slot[a].op = "register" /\ slot[a].pc = "done"
          /\ slot[b].op = "register" /\ slot[b].pc = "done"
          /\ slot[a].username = slot[b].username
          /\ slot[a].username # Absent
          /\ slot[a].password # Absent /\ slot[b].password # Absent )
        => /\ {slot[a].resp, slot[b].resp} =
                {Resp(200, "User registered successfully"),
                 Resp(409, "User already exists")}
           /\ Cardinality({u \in users : u.username = slot[a].username}) = 1

\* C3 (login): when the lookup of a login finds the request's username stored
\* with a hash of the request's password, the login answers 200 with a token
\* that verifyToken accepts as a bearer token, with req.user.id that user's id.
LoginAccepted ==
    \A c \in Clients :
        (slot[c].op = "login" /\ slot[c].pc = "done" /\ slot[c].expect # {})
        => /\ slot[c].resp.status = 200
           /\ slot[c].resp.message = "Login successful"
           /\ Len(slot[c].resp.token) = 1
           /\ LET token == slot[c].resp.token[1]
                  g == VerifyToken(<<TextWord, token>>, token.iat)
              IN  g.next /\ g.user.id \in slot[c].expect

\* C3 (register): a register that answers 200 has stored one new user under
\* its username, with a hash of its password.
RegisterCreates ==
    \A c \in Clients :
        (slot[c].op = "register" /\ slot[c].pc = "save" /\ Answered(c)
            /\ slot'[c].resp.status = 200)
        => \E u \in users' :
             /\ users' = users \cup {u} /\ u \notin users
             /\ u.username = slot[c].username
             /\ BcryptCompare(slot[c].password, u.password)

\* C3: register, then login with the same credentials, yields a token the
\* gate accepts for the registered user.
RegisterThenLogin == [](LoginAccepted) /\ [][RegisterCreates]_vars

RegisterThenLoginWitness ==
    \E c \in Clients :
        /\ slot[c].op = "login" /\ slot[c].pc = "done"
        /\ slot[c].expect # {}
        /\ slot[c].resp.status = 200

\* C4: a login with a stored username and a wrong password and a login with a
\* username that is not stored get the same answer, 401 "Invalid username or
\* password" without a token, and change nothing in the store.
LoginNoEnumeration ==
    [][\A c \in Clients :
        ( /\ slot[c].op = "login"
          /\ Answered(c)
          /\ \/ /\ slot[c].pc = "findOne"
                /\ \A u \in users : u.username # slot[c].username
             \/ /\ slot[c].pc = "compare"
                /\ ~BcryptCompare(slot[c].password, slot[c].found[1].password) )
        => /\ slot'[c].resp = Resp(401, "Invalid username or password")
           /\ UNCHANGED <<users, orders>>]_vars

\* One client was refused for a wrong password, the other for an unknown
\* username.
LoginNoEnumerationWitness ==
    \E a, b \in Clients :
        /\ slot[a].op = "login" /\ slot[a].resp.status = 401
        /\ slot[a].expect = {}
        /\ \E u \in users : u.username = slot[a].username
        /\ slot[b].op = "login" /\ slot[b].resp.status = 401
        /\ \A u \in users : u.username # slot[b].username

\* The gate took the request of c with token t: req.user is t's payload.
GateAccepted(c, t) ==
    /\ slot'[c].ran
    /\ slot'[c].user = [id |-> t.id, username |-> t.username,
                        iat |-> t.iat, exp |-> t.exp]

GateForbidden(c) ==
    /\ slot'[c].pc = "done"
    /\ slot'[c].resp = Resp(403, "Invalid token")
    /\ ~slot'[c].ran

\* C5 as claimed: a token issued by login at T is accepted at every time from
\* T up to T + 2h and answered 403 at every time after, whatever has changed
\* in the store.
TokenLifetimeInclusive ==
    [][\A c \in Clients : \A t \in issued :
        (ArrivesProtected(c) /\ slot'[c].header = <<TextWord, t>>)
        => IF now <= t.iat + ExpiresIn
           THEN GateAccepted(c, t) ELSE GateForbidden(c)]_vars

\* C5 as amended: accepted while the clock, in whole seconds, is before
\* T + 2h, answered 403 from T + 2h on.
TokenLifetime ==
    [][\A c \in Clients : \A t \in issued :
        (ArrivesProtected(c) /\ slot'[c].header = <<TextWord, t>>)
        => IF now < t.iat + ExpiresIn
           THEN GateAccepted(c, t) ELSE GateForbidden(c)]_vars

\* A token was accepted after its issue, with the username it was issued for
\* no longer the stored one.
TokenLifetimeWitness ==
    \E c \in Clients : \E t \in issued :
        /\ slot[c].op \in Protected
        /\ slot[c].header = <<TextWord, t>>
        /\ slot[c].ran
        /\ slot[c].user.username = t.username
        /\ now > t.iat
        /\ \E u \in users : u.id = t.id /\ u.username # t.username

\* The header carries no token, or one that is malformed, wrongly signed or
\* expired at t.
BadToken(header, t) ==
    \/ Len(header) < 2
    \/ header[2].kind # "jwt"
    \/ header[2].key # Secret
    \/ t >= header[2].exp

\* C6: on each protected route, a request without an Authorization header is
\* answered 401 "Access denied. No token.", one with a malformed, wrongly
\* signed or expired token 403 "Invalid token"; the handler is not run (a
\* missing body does not make it 400) and the store is unchanged.
GateRejects ==
    [][\A c \in Clients :
        ArrivesProtected(c)
        => /\ slot'[c].header = <<>>
              => /\ slot'[c].pc = "done"
                 /\ slot'[c].resp = Resp(401, "Access denied. No token.")
                 /\ ~slot'[c].ran
                 /\ UNCHANGED <<users, orders>>
           /\ (slot'[c].header # <<>> /\ BadToken(slot'[c].header, now))
              => /\ slot'[c].pc = "done"
                 /\ slot'[c].resp = Resp(403, "Invalid token")
                 /\ ~slot'[c].ran
                 /\ UNCHANGED <<users, orders>>]_vars

\* An update-password without a body was refused for its expired token, an
\* issued one.
GateRejectsWitness ==
    \E c \in Clients : \E t \in issued :
        /\ slot[c].op = "update-password"
        /\ slot[c].password = Absent
        /\ slot[c].header = <<TextWord, t>>
        /\ now >= t.exp
        /\ slot[c].resp.status = 403

\* my-orders of client c is answered in this step.
MyOrdersAnswered(c) ==
    slot[c].op = "my-orders" /\ slot[c].pc = "find" /\ Answered(c)

\* The answer is 200 with exactly the stored orders of the token's subject.
MyOrdersOwn(c) ==
    LET mine == {o \in orders : o.userId = slot[c].header[2].id}
    IN  /\ slot'[c].resp.status = 200
        /\ Range(slot'[c].resp.orders) = mine
        /\ Len(slot'[c].resp.orders) = Cardinality(mine)

\* C7 as claimed: my-orders answers exactly the caller's orders, each with a
\* createdAt greater than the next one's.
MyOrdersStrictlyDescending ==
    [][\A c \in Clients :
        MyOrdersAnswered(c)
        => /\ MyOrdersOwn(c)
           /\ \A i \in 1..(Len(slot'[c].resp.orders) - 1) :
                slot'[c].resp.orders[i].createdAt
                    > slot'[c].resp.orders[i + 1].createdAt]_vars

\* C7 as amended: each with a createdAt greater than or equal to the next
\* one's.
MyOrdersDescending ==
    [][\A c \in Clients :
        MyOrdersAnswered(c)
        => /\ MyOrdersOwn(c)
           /\ \A i \in 1..(Len(slot'[c].resp.orders) - 1) :
                slot'[c].resp.orders[i].createdAt
                    >= slot'[c].resp.orders[i + 1].createdAt]_vars

\* After create-order requests of two users, my-orders answered the caller's
\* one order while the other user's order is stored.
MyOrdersDescendingWitness ==
    \E c \in Clients :
        /\ slot[c].op = "my-orders" /\ slot[c].pc = "done"
        /\ slot[c].resp.status = 200
        /\ Len(slot[c].resp.orders) = 1
        /\ slot[c].resp.orders[1].userId = slot[c].header[2].id
        /\ \E o \in orders : o.userId # slot[c].header[2].id

\* The sum over the items of price times quantity.
RECURSIVE SumPriceQuantity(_)
SumPriceQuantity(items) ==
    IF Len(items) = 0 THEN 0
    ELSE SumPriceQuantity(SubSeq(items, 1, Len(items) - 1))
         + items[Len(items)].price * items[Len(items)].quantity

\* C8: a create-order with a valid token and a non-empty items list goes on
\* to the save, which adds exactly one order (the subject's, "Pending", the
\* given items, totalAmount the sum of price times quantity; 10x2 + 5x1 = 25)
\* and answers 200 with the acknowledgment alone; no other order and no user
\* changes.
CreateOrderStores ==
    [][\A c \in Clients :
        /\ ( /\ ArrivesProtected(c)
             /\ slot'[c].op = "create-order"
             /\ ~BadToken(slot'[c].header, now)
             /\ slot'[c].hasItems /\ slot'[c].items # <<>> )
           => slot'[c].pc = "save" /\ UNCHANGED <<users, orders>>
        /\ (slot[c].op = "create-order" /\ slot[c].pc = "save" /\ Answered(c))
           => /\ \E o \in orders' :
                   /\ o \notin orders
                   /\ orders' = orders \cup {o}
                   /\ \A p \in orders : p.id # o.id
                   /\ o.userId = slot[c].header[2].id
                   /\ o.status = "Pending"
                   /\ o.items = slot[c].items
                   /\ o.totalAmount = SumPriceQuantity(slot[c].items)
                   /\ o.items = <<ItemA, ItemB>> => o.totalAmount = 25
              /\ slot'[c].resp = Resp(200, "Order placed successfully")
              /\ users' = users]_vars

CreateOrderStoresWitness ==
    \E c \in Clients :
        /\ slot[c].op = "create-order"
        /\ slot[c].resp.status = 200
        /\ slot[c].items = <<ItemA, ItemB>>
        /\ \E o \in orders :
             o.items = <<ItemA, ItemB>> /\ o.totalAmount = 25

\* update-username of client c reaches the store in this step.
UpdateUsernameAnswered(c) ==
    slot[c].op = "update-username" /\ slot[c].pc = "update" /\ Answered(c)

\* The subject's username is the new one; its hash, the other users and the
\* orders are as before.
UsernameOverwritten(c) ==
    /\ slot'[c].resp = Resp(200, "Username updated successfully")
    /\ \A u \in users :
         IF u.id = slot[c].header[2].id
         THEN [u EXCEPT !.username = slot[c].username] \in users'
         ELSE u \in users'
    /\ Cardinality(users') = Cardinality(users)
    /\ orders' = orders

UsernameTaken(c) ==
    \E u \in users :
        u.username = slot[c].username /\ u.id # slot[c].header[2].id

\* C9 as claimed: an update-username that passes the gate with a non-empty
\* username answers 200 and overwrites the subject's username, also when
\* another user holds that username.
UpdateUsernameAlways ==
    [][\A c \in Clients :
        UpdateUsernameAnswered(c) => UsernameOverwritten(c)]_vars

\* C9 as amended: it does so unless another user holds the username when
\* the update reaches the store; then it answers 500 "Server error" and
\* users and orders are unchanged.
UpdateUsernameUnlessTaken ==
    [][\A c \in Clients :
        UpdateUsernameAnswered(c)
        => IF UsernameTaken(c)
           THEN /\ slot'[c].resp = Resp(500, "Server error")
                /\ UNCHANGED <<users, orders>>
           ELSE UsernameOverwritten(c)]_vars

\* A user took a free username while another user is stored.
UpdateUsernameWitness ==
    \E c \in Clients :
        /\ slot[c].op = "update-username"
        /\ slot[c].resp.status = 200
        /\ Cardinality(users) = 2
        /\ \E u \in users :
             u.id = slot[c].header[2].id /\ u.username = slot[c].username

\* C10: a request answered with a client error leaves users and orders as
\* they were: the step that answers 4xx changes neither, and the store only
\* changes in the step that answers a request 200.
ClientErrorNoWrite ==
    [][/\ \A c \in Clients :
            (Answered(c) /\ slot'[c].resp.status \in 400..499)
            => UNCHANGED <<users, orders>>
       /\ (users' # users \/ orders' # orders)
            => \E c \in Clients :
                 /\ Answered(c)
                 /\ slot[c].pc \notin {"idle", "done"}
                 /\ slot'[c].resp.status = 200]_vars

\* A create-order with an empty items list was answered 400 and no order
\* is stored, after a register was answered 409.
ClientErrorNoWriteWitness ==
    \E a, b \in Clients :
        /\ slot[a].op = "create-order"
        /\ slot[a].hasItems /\ slot[a].items = <<>>
        /\ slot[a].resp = Resp(400, "No items provided")
        /\ orders = {}
        /\ slot[b].op = "register"
        /\ slot[b].resp.status = 409

====
